---------------------------- MODULE Spec2Model ----------------------------
(***************************************************************************)
(* The provisioner (start_server.py) and the probe (test_auth.py) of the   *)
(* mcp-neo4j-cypher test_api directory.                                    *)
(*                                                                         *)
(* Strings are sequences of one-character strings, so that str.replace,    *)
(* the dotenv value syntax and byte lengths are computed, not assumed.     *)
(* None is the one-element sequence <<"None">>, which no string equals.    *)
(***************************************************************************)
EXTENDS Integers, Sequences, FiniteSets, TLC

(***************************************************************************)
(* Bounds of the model.                                                    *)
(***************************************************************************)
\* child processes exit with a code in 0..MaxExit
MaxExit == 2
\* the schema text of a tool result holds at most MaxEntries top-level pairs
MaxEntries == 3

(***************************************************************************)
(* String literals of the source.                                          *)
(***************************************************************************)
None == <<"None">>

S_localhost == <<"l","o","c","a","l","h","o","s","t">>
S_loopback_ip == <<"1","2","7",".","0",".","0",".","1">>
S_docker_host ==
  <<"h","o","s","t",".","d","o","c","k","e","r",".","i","n","t","e","r","n","a","l">>
S_neo4j == <<"n","e","o","4","j">>
S_http == <<"h","t","t","p">>
S_port_default == <<"8","0","0","1">>
S_path_default == <<"/","m","c","p","/">>
S_bind_all == <<"0",".","0",".","0",".","0">>

\* secrets.token_urlsafe(TokenBytes): TokenBytes random bytes, base64 without padding
TokenBytes == 32
TokenLen == (TokenBytes * 4 + 2) \div 3

(***************************************************************************)
(* Input values the model draws from.                                      *)
(***************************************************************************)
S_bolt == <<"b","o","l","t",":","/","/">>
S_p7687 == <<":","7","6","8","7">>
S_p7688 == <<":","7","6","8","8">>
U_local == S_bolt \o S_localhost \o S_p7687
U_local_quoted == <<"\"">> \o U_local \o <<"\"">>
U_ip == S_bolt \o S_loopback_ip \o S_p7687
U_cloud == <<"n","e","o","4","j","+","s",":","/","/","d","b",".","e","x",".","i","o">>
U_two == U_local \o <<",">> \o S_localhost \o S_p7688
U_mixed == U_ip \o <<",">> \o S_localhost \o S_p7688
\* "local" + "localhost" + "host": replacing the inner match forms a new one
U_nested == S_bolt \o <<"l","o","c","a","l">> \o S_localhost \o <<"h","o","s","t">> \o S_p7687
\* an unquoted value with an inline comment
U_comment == S_bolt \o <<"d","b">> \o S_p7687 \o <<" ","#"," ","x">>
\* a cluster address far longer than the others
U_long == <<"n","e","o","4","j","+","s",":","/","/">> \o [i \in 1..80 |-> "c"] \o <<".","i","o">>
V_user == <<"n","e","o","4","j">>
V_pass == <<"s","3","c","r","e","t">>
V_pass_quoted == <<"'","p"," ","#","w","'">>
V_unclosed == <<"\"","p","w">>
V_db == <<"m","o","v","i","e","s">>
V_stdio == <<"s","t","d","i","o">>
V_port == <<"9","0","0","0">>

\* URL-safe characters the generated keys are made of
KeyChars == {"A", "b"}
ApiKeys == {[i \in 1..TokenLen |-> c] : c \in KeyChars}

Keys == {"NEO4J_URI", "NEO4J_USERNAME", "NEO4J_PASSWORD", "NEO4J_DATABASE",
         "NEO4J_TRANSPORT", "NEO4J_MCP_SERVER_HOST", "NEO4J_MCP_SERVER_PORT",
         "NEO4J_MCP_SERVER_PATH", "NEO4J_API_KEY"}

\* len(key)
KeyLen(k) ==
  CASE k = "NEO4J_URI" -> 9
    [] k = "NEO4J_USERNAME" -> 14
    [] k = "NEO4J_PASSWORD" -> 14
    [] k = "NEO4J_DATABASE" -> 14
    [] k = "NEO4J_TRANSPORT" -> 15
    [] k = "NEO4J_MCP_SERVER_HOST" -> 21
    [] k = "NEO4J_MCP_SERVER_PORT" -> 21
    [] k = "NEO4J_MCP_SERVER_PATH" -> 21
    [] k = "NEO4J_API_KEY" -> 13

(***************************************************************************)
(* Python string operations.                                               *)
(***************************************************************************)
StartsWith(s, pat) ==
  /\ Len(pat) <= Len(s)
  /\ SubSeq(s, 1, Len(pat)) = pat

Drop(s, n) == SubSeq(s, n + 1, Len(s))

\* pat in s
Contains(s, pat) == \E i \in 0..(Len(s) - Len(pat)) : StartsWith(Drop(s, i), pat)

\* s.replace(old, new): left to right, matches do not overlap
RECURSIVE StrReplace(_, _, _)
StrReplace(s, old, new) ==
  IF Len(s) < Len(old) THEN s
  ELSE IF StartsWith(s, old) THEN new \o StrReplace(Drop(s, Len(old)), old, new)
  ELSE <<Head(s)>> \o StrReplace(Tail(s), old, new)

\* bool(v) of an optional string
Truthy(v) == v # None /\ v # <<>>

(***************************************************************************)
(* The .env file: whether it exists and its lines. A line is a binding     *)
(* KEY=raw (k the key, v the text after "="), or a line that binds no      *)
(* configuration key (k = ""); n is its length in bytes, newline included. *)
(***************************************************************************)
BindingLine(k, raw) == [k |-> k, v |-> raw, n |-> KeyLen(k) + 1 + Len(raw) + 1]
OtherLine(n) == [k |-> "", v |-> <<>>, n |-> n]

RECURSIVE Bytes(_)
Bytes(lines) == IF lines = <<>> THEN 0 ELSE Head(lines).n + Bytes(Tail(lines))

(***************************************************************************)
(* dotenv's value syntax: blanks after "=" are skipped; a value opening    *)
(* with a quote runs to the closing quote and may be followed only by      *)
(* blanks and a comment (anything else, or no closing quote, makes the     *)
(* line unparseable); an unquoted value loses its inline comment (blanks   *)
(* followed by #) and its trailing blanks.                                 *)
(***************************************************************************)
RECURSIVE LStrip(_)
LStrip(s) == IF s # <<>> /\ Head(s) = " " THEN LStrip(Tail(s)) ELSE s

RECURSIVE RStrip(_)
RStrip(s) ==
  IF s # <<>> /\ s[Len(s)] = " " THEN RStrip(SubSeq(s, 1, Len(s) - 1)) ELSE s

\* re.sub(r"\s+#.*", "", s)
StripComment(s) ==
  LET cuts == {i \in 1..Len(s) : s[i] = " " /\ LStrip(Drop(s, i - 1)) # <<>>
                                  /\ Head(LStrip(Drop(s, i - 1))) = "#"}
  IN  IF cuts = {} THEN s
      ELSE SubSeq(s, 1, (CHOOSE i \in cuts : \A j \in cuts : i <= j) - 1)

DotenvParseValue(raw) ==
  LET s == LStrip(raw)
  IN  IF s # <<>> /\ Head(s) \in {"\"", "'"}
      THEN LET closes == {j \in 2..Len(s) : s[j] = Head(s)}
           IN  IF closes = {} THEN None
               ELSE LET j == CHOOSE x \in closes : \A y \in closes : x <= y
                        rest == LStrip(Drop(s, j))
                    IN  IF rest = <<>> \/ Head(rest) = "#"
                        THEN SubSeq(s, 2, j - 1)
                        ELSE None
      ELSE RStrip(StripComment(s))

\* dotenv_values: the last parseable binding of each key
DotenvValues(lines) ==
  [k \in Keys |->
     LET hits == {i \in 1..Len(lines) :
                    lines[i].k = k /\ DotenvParseValue(lines[i].v) # None}
     IN  IF hits = {} THEN None
         ELSE DotenvParseValue(lines[CHOOSE i \in hits : \A j \in hits : j <= i].v)]

\* load_dotenv(path), override=False: a variable the environment already
\* holds (even empty) is kept, the others are set from the file
LoadDotenv(environ, f) ==
  IF ~f.exists THEN environ
  ELSE [k \in Keys |-> IF environ[k] # None THEN environ[k]
                       ELSE DotenvValues(f.lines)[k]]

\* os.getenv(key, default)
GetEnv(environ, k, default) == IF environ[k] # None THEN environ[k] ELSE default

(***************************************************************************)
(* File writes. write_text opens with O_TRUNC, then writes the text at     *)
(* offset 0 of its own descriptor: bytes of the file beyond the text       *)
(* written (left by another writer since the truncation) stay.  A line cut *)
(* by the overwrite keeps its tail, which binds no configuration key.      *)
(***************************************************************************)
RECURSIVE CutPrefix(_, _)
CutPrefix(lines, b) ==
  IF lines = <<>> \/ b = 0 THEN lines
  ELSE IF Head(lines).n <= b THEN CutPrefix(Tail(lines), b - Head(lines).n)
  ELSE <<OtherLine(Head(lines).n - b)>> \o Tail(lines)

Truncated == [exists |-> TRUE, lines |-> <<>>]

WriteAtZero(f, text) ==
  [exists |-> TRUE, lines |-> text \o CutPrefix(f.lines, Bytes(text))]


(***************************************************************************)
(* State.  Two provisioner runs (processes of start_server.py) share the   *)
(* .env file; everything else is per run.                                  *)
(***************************************************************************)
Runs == {1, 2}

VARIABLES
  file,         \* the .env file: [exists, lines]
  pc,           \* pc[p]: where run p is
  docker,       \* docker[p]: args.docker
  environ,      \* environ[p]: os.environ of run p, on the configuration keys
  api_key,      \* api_key[p]: the key main generated
  env_content,  \* env_content[p]: the text update_env_with_api_key built
  child_env,    \* child_env[p]: the configuration the spawned server got
  child_rc,     \* child_rc[p]: the return code of the last child (-1: none)
  exit_code,    \* exit_code[p]: the exit status of run p (-1: running)
  out,          \* out[p]: the messages run p printed
  prior,        \* history: the .env file before any run
  environ0,     \* history: environ at process start
  last_writer,  \* history: the run whose write was the latest (0: none)
  residue,      \* history: the latest write left bytes of an earlier text behind
  sigint,       \* history: sigint[p], where SIGINT reached run p ("": nowhere)
  probe         \* the probe (test_auth.py), see below

vars == <<file, pc, docker, environ, api_key, env_content, child_env, child_rc,
          exit_code, out, prior, environ0, last_writer, residue, sigint, probe>>

provisioner_vars == <<file, pc, docker, environ, api_key, env_content, child_env,
                      child_rc, exit_code, out, prior, environ0, last_writer,
                      residue, sigint>>

NoEnv == [k \in Keys |-> None]

(***************************************************************************)
(* generate_api_key                                                        *)
(***************************************************************************)
generate_api_key == ApiKeys

(***************************************************************************)
(* update_env_with_api_key: the text written (the f-string of lines 53-67) *)
(***************************************************************************)
EnvContent(neo4j_uri, neo4j_username, neo4j_password, neo4j_database, key) ==
  << OtherLine(46),
     BindingLine("NEO4J_URI", neo4j_uri),
     BindingLine("NEO4J_USERNAME", neo4j_username),
     BindingLine("NEO4J_PASSWORD", neo4j_password),
     BindingLine("NEO4J_DATABASE", neo4j_database),
     OtherLine(1),
     OtherLine(37),
     BindingLine("NEO4J_TRANSPORT", S_http),
     BindingLine("NEO4J_MCP_SERVER_HOST", S_loopback_ip),
     BindingLine("NEO4J_MCP_SERVER_PORT", S_port_default),
     BindingLine("NEO4J_MCP_SERVER_PATH", S_path_default),
     OtherLine(1),
     OtherLine(46),
     BindingLine("NEO4J_API_KEY", key) >>

\* sys.exit(code) after printing msg, or the interpreter's exit
Exit(p, code, msgs) ==
  /\ pc' = [pc EXCEPT ![p] = "done"]
  /\ exit_code' = [exit_code EXCEPT ![p] = code]
  /\ out' = [out EXCEPT ![p] = @ \cup msgs]

\* main, line 228
GenerateKey(p) ==
  /\ pc[p] = "start"
  /\ \E k \in generate_api_key : api_key' = [api_key EXCEPT ![p] = k]
  /\ pc' = [pc EXCEPT ![p] = "update_env"]
  /\ UNCHANGED <<file, docker, environ, env_content, child_env, child_rc,
                 exit_code, out, prior, environ0, last_writer, residue, sigint, probe>>

\* not all([neo4j_uri, neo4j_username, neo4j_password])
MissingInfo(e) ==
  ~(Truthy(e["NEO4J_URI"]) /\ Truthy(e["NEO4J_USERNAME"]) /\ Truthy(e["NEO4J_PASSWORD"]))

\* update_env_with_api_key, lines 33-67: the existence check, load_dotenv,
\* the getenv calls, the validation and the text
UpdateEnvRead(p) ==
  /\ pc[p] = "update_env"
  /\ IF ~file.exists
     THEN /\ Exit(p, 1, {"env_not_found"})
          /\ UNCHANGED <<environ, env_content>>
     ELSE LET e == LoadDotenv(environ[p], file)
          IN  /\ environ' = [environ EXCEPT ![p] = e]
              /\ IF MissingInfo(e)
                 THEN /\ Exit(p, 1, {"missing_info"})
                      /\ UNCHANGED env_content
                 ELSE /\ env_content' = [env_content EXCEPT ![p] =
                           EnvContent(e["NEO4J_URI"], e["NEO4J_USERNAME"],
                                      e["NEO4J_PASSWORD"],
                                      GetEnv(e, "NEO4J_DATABASE", S_neo4j),
                                      api_key[p])]
                      /\ pc' = [pc EXCEPT ![p] = "open"]
                      /\ UNCHANGED <<exit_code, out>>
  /\ UNCHANGED <<file, docker, api_key, child_env, child_rc, prior, environ0,
                 last_writer, residue, sigint, probe>>

\* env_path.write_text, line 68: open(path, "w")
OpenTruncate(p) ==
  /\ pc[p] = "open"
  /\ file' = Truncated
  /\ pc' = [pc EXCEPT ![p] = "write"]
  /\ UNCHANGED <<docker, environ, api_key, env_content, child_env, child_rc,
                 exit_code, out, prior, environ0, last_writer, residue, sigint, probe>>

\* env_path.write_text, line 68: the write and the close; line 69
WriteText(p) ==
  /\ pc[p] = "write"
  /\ file' = WriteAtZero(file, env_content[p])
  /\ last_writer' = p
  /\ residue' = (Bytes(file.lines) > Bytes(env_content[p]))
  /\ out' = [out EXCEPT ![p] = @ \cup {"updated_env"}]
  /\ pc' = [pc EXCEPT ![p] = "launch"]
  /\ UNCHANGED <<docker, environ, api_key, env_content, child_env, child_rc,
                 exit_code, prior, environ0, sigint, probe>>

(***************************************************************************)
(* start_server                                                            *)
(***************************************************************************)
\* a faulty variant of LocalChildEnv: NEO4J_API_KEY read back with os.getenv like the other keys
LocalChildEnv_KeyFromEnviron(e, key) ==
  [k \in Keys |-> e[k]]

\* lines 78-95: env = os.environ.copy() overlaid with the entries of
\* env_updates that are not None
LocalChildEnv(e, key) ==
  LET env_updates == [k \in Keys |-> IF k = "NEO4J_API_KEY" THEN key ELSE e[k]]
  IN  [k \in Keys |-> IF env_updates[k] # None THEN env_updates[k] ELSE e[k]]

\* lines 74-107: load_dotenv, the environment, and the child spawned
StartServer(p) ==
  /\ pc[p] = "launch"
  /\ ~docker[p]
  /\ LET e == LoadDotenv(environ[p], file)
     IN  /\ environ' = [environ EXCEPT ![p] = e]
         /\ child_env' = [child_env EXCEPT ![p] = LocalChildEnv(e, api_key[p])]
  /\ pc' = [pc EXCEPT ![p] = "serving"]
  /\ UNCHANGED <<file, docker, api_key, env_content, child_rc, exit_code, out,
                 prior, environ0, last_writer, residue, sigint, probe>>

\* lines 103-107 and 235: subprocess.run returns, its return code c is not
\* read, and main returns
ServerExitStatus(c) == 0

ServerExit(p) ==
  /\ pc[p] = "serving"
  /\ \E c \in 0..MaxExit :
       /\ child_rc' = [child_rc EXCEPT ![p] = c]
       /\ Exit(p, ServerExitStatus(c), {})
  /\ UNCHANGED <<file, docker, environ, api_key, env_content, child_env, prior,
                 environ0, last_writer, residue, sigint, probe>>

\* a faulty variant of InterruptServer: no except KeyboardInterrupt around subprocess.run
InterruptServer_Uncaught(p) ==
  /\ pc[p] \in {"serving", "container"}
  /\ sigint' = [sigint EXCEPT ![p] = pc[p]]
  /\ Exit(p, 130, {"traceback"})
  /\ UNCHANGED <<file, docker, environ, api_key, env_content, child_env, child_rc,
                 prior, environ0, last_writer, residue, probe>>

\* lines 108-109 and 198-199: KeyboardInterrupt while subprocess.run waits
InterruptServer(p) ==
  /\ pc[p] \in {"serving", "container"}
  /\ sigint' = [sigint EXCEPT ![p] = pc[p]]
  /\ Exit(p, 0, {"server_stopped"})
  /\ UNCHANGED <<file, docker, environ, api_key, env_content, child_env, child_rc,
                 prior, environ0, last_writer, residue, probe>>

(***************************************************************************)
(* start_server_docker                                                     *)
(***************************************************************************)
\* a faulty variant of RewriteUri: only 'localhost' is replaced
RewriteUri_LocalhostOnly(neo4j_uri) ==
  IF Truthy(neo4j_uri) /\ Contains(neo4j_uri, S_localhost)
  THEN StrReplace(neo4j_uri, S_localhost, S_docker_host)
  ELSE neo4j_uri

\* lines 154-156
RewriteUri(neo4j_uri) ==
  IF Truthy(neo4j_uri)
     /\ (Contains(neo4j_uri, S_localhost) \/ Contains(neo4j_uri, S_loopback_ip))
  THEN StrReplace(StrReplace(neo4j_uri, S_localhost, S_docker_host),
                  S_loopback_ip, S_docker_host)
  ELSE neo4j_uri

\* f"{v}"
Fmt(v) == IF v = None THEN <<"N","o","n","e">> ELSE v

\* lines 147-192: the -e bindings of docker run
DockerChildEnv(e, key) ==
  [k \in Keys |->
     CASE k = "NEO4J_URI" -> Fmt(RewriteUri(e["NEO4J_URI"]))
       [] k = "NEO4J_USERNAME" -> Fmt(e["NEO4J_USERNAME"])
       [] k = "NEO4J_PASSWORD" -> Fmt(e["NEO4J_PASSWORD"])
       [] k = "NEO4J_DATABASE" -> GetEnv(e, "NEO4J_DATABASE", S_neo4j)
       [] k = "NEO4J_TRANSPORT" -> S_http
       [] k = "NEO4J_MCP_SERVER_HOST" -> S_bind_all
       [] k = "NEO4J_MCP_SERVER_PORT" -> GetEnv(e, "NEO4J_MCP_SERVER_PORT", S_port_default)
       [] k = "NEO4J_MCP_SERVER_PATH" -> GetEnv(e, "NEO4J_MCP_SERVER_PATH", S_path_default)
       [] k = "NEO4J_API_KEY" -> key]

\* lines 118-135: load_dotenv, docker build started
DockerBuild(p) ==
  /\ pc[p] = "launch"
  /\ docker[p]
  /\ environ' = [environ EXCEPT ![p] = LoadDotenv(environ[p], file)]
  /\ pc' = [pc EXCEPT ![p] = "building"]
  /\ UNCHANGED <<file, docker, api_key, env_content, child_env, child_rc,
                 exit_code, out, prior, environ0, last_writer, residue, sigint, probe>>

\* lines 141-144: no docker executable
DockerNotFound(p) ==
  /\ pc[p] = "launch"
  /\ docker[p]
  /\ environ' = [environ EXCEPT ![p] = LoadDotenv(environ[p], file)]
  /\ Exit(p, 1, {"docker_not_found"})
  /\ UNCHANGED <<file, docker, api_key, env_content, child_env, child_rc,
                 prior, environ0, last_writer, residue, sigint, probe>>

\* lines 138-140: the build exits with c # 0
BuildFailedStatus(c) == 1

BuildFailed(p) ==
  /\ pc[p] = "building"
  /\ \E c \in 1..MaxExit :
       /\ child_rc' = [child_rc EXCEPT ![p] = c]
       /\ Exit(p, BuildFailedStatus(c), {"build_failed"})
  /\ UNCHANGED <<file, docker, environ, api_key, env_content, child_env, prior,
                 environ0, last_writer, residue, sigint, probe>>

\* lines 136-197: the build exits 0, the container is started
DockerRun(p) ==
  /\ pc[p] = "building"
  /\ child_rc' = [child_rc EXCEPT ![p] = -1]
  /\ child_env' = [child_env EXCEPT ![p] = DockerChildEnv(environ[p], api_key[p])]
  /\ out' = [out EXCEPT ![p] = @ \cup {"image_built"}]
  /\ pc' = [pc EXCEPT ![p] = "container"]
  /\ UNCHANGED <<file, docker, environ, api_key, env_content, exit_code, prior,
                 environ0, last_writer, residue, sigint, probe>>

\* a faulty variant of ContainerExitStatus: sys.exit(e.returncode)
ContainerExitStatus_Verbatim(c) == c

\* line 197: docker run exits with c; check=True raises CalledProcessError
\* on c # 0, which nothing catches (the interpreter prints it and exits 1)
ContainerExitStatus(c) == IF c = 0 THEN 0 ELSE 1

ContainerExit(p) ==
  /\ pc[p] = "container"
  /\ \E c \in 0..MaxExit :
       /\ child_rc' = [child_rc EXCEPT ![p] = c]
       /\ Exit(p, ContainerExitStatus(c), IF c = 0 THEN {} ELSE {"traceback"})
  /\ UNCHANGED <<file, docker, environ, api_key, env_content, child_env, prior,
                 environ0, last_writer, residue, sigint, probe>>

\* lines 130-144: KeyboardInterrupt during the build is not caught (the
\* interpreter ends on SIGINT, status 130)
InterruptBuild(p) ==
  /\ pc[p] = "building"
  /\ sigint' = [sigint EXCEPT ![p] = pc[p]]
  /\ Exit(p, 130, {"traceback"})
  /\ UNCHANGED <<file, docker, environ, api_key, env_content, child_env, child_rc,
                 prior, environ0, last_writer, residue, probe>>

Step(p) ==
  \/ GenerateKey(p)
  \/ UpdateEnvRead(p)
  \/ OpenTruncate(p)
  \/ WriteText(p)
  \/ StartServer(p)
  \/ ServerExit(p)
  \/ InterruptServer(p)
  \/ DockerBuild(p)
  \/ DockerNotFound(p)
  \/ BuildFailed(p)
  \/ DockerRun(p)
  \/ ContainerExit(p)
  \/ InterruptBuild(p)

Next == \E p \in Runs : Step(p)

(***************************************************************************)
(* Initial states: the .env files and environments a run may start from.   *)
(***************************************************************************)
\* a .env file binding the keys of b (a function on Keys) that are not None
RECURSIVE LinesOf(_, _)
LinesOf(b, order) ==
  IF order = <<>> THEN <<>>
  ELSE (IF b[Head(order)] = None THEN <<>>
        ELSE <<BindingLine(Head(order), b[Head(order)])>>)
       \o LinesOf(b, Tail(order))

KeyOrder == <<"NEO4J_URI", "NEO4J_USERNAME", "NEO4J_PASSWORD", "NEO4J_DATABASE",
              "NEO4J_TRANSPORT", "NEO4J_MCP_SERVER_HOST", "NEO4J_MCP_SERVER_PORT",
              "NEO4J_MCP_SERVER_PATH", "NEO4J_API_KEY">>

FileOf(b) == [exists |-> TRUE, lines |-> LinesOf(b, KeyOrder)]
NoFile == [exists |-> FALSE, lines |-> <<>>]

With(b, k, v) == [b EXCEPT ![k] = v]

\* the three datastore fields, as .env.sample asks for them
BaseBindings ==
  With(With(With(NoEnv, "NEO4J_URI", U_local), "NEO4J_USERNAME", V_user),
       "NEO4J_PASSWORD", V_pass)

\* the raw values a prior file may hold for each key
RawValues(k) ==
  CASE k = "NEO4J_URI" -> {None, <<>>, U_local, U_local_quoted, U_ip, U_cloud,
                           U_two, U_mixed, U_nested, U_comment}
    [] k = "NEO4J_USERNAME" -> {None, V_user}
    [] k = "NEO4J_PASSWORD" -> {None, V_pass, V_pass_quoted, V_unclosed}
    [] k = "NEO4J_DATABASE" -> {None, <<>>, V_db}
    [] k = "NEO4J_TRANSPORT" -> {None, V_stdio}
    [] k = "NEO4J_MCP_SERVER_HOST" -> {None, S_bind_all}
    [] k = "NEO4J_MCP_SERVER_PORT" -> {None, V_port}
    [] k = "NEO4J_MCP_SERVER_PATH" -> {None}
    [] k = "NEO4J_API_KEY" -> {None} \cup ApiKeys

\* b with one key bound to another of its raw values
Variants(b) == UNION {{With(b, k, v) : v \in RawValues(k)} : k \in Keys}

\* prior files: the base file with up to two keys changed, and no file
PriorFiles ==
  {NoFile} \cup {FileOf(b) : b \in UNION {Variants(b1) : b1 \in Variants(BaseBindings)}}

\* process environments: nothing set, or one configuration variable set
Environs ==
  {NoEnv} \cup
  {With(NoEnv, t[1], t[2]) :
     t \in {<<"NEO4J_URI", U_ip>>, <<"NEO4J_URI", U_cloud>>,
            <<"NEO4J_PASSWORD", V_pass>>, <<"NEO4J_TRANSPORT", V_stdio>>,
            <<"NEO4J_API_KEY", CHOOSE k \in ApiKeys : TRUE>>}}

ProbeIdle == [pc |-> "off"]

InitCommon ==
  /\ prior = file
  /\ environ0 = environ
  /\ api_key = [p \in Runs |-> None]
  /\ env_content = [p \in Runs |-> <<>>]
  /\ child_env = [p \in Runs |-> NoEnv]
  /\ child_rc = [p \in Runs |-> -1]
  /\ exit_code = [p \in Runs |-> -1]
  /\ out = [p \in Runs |-> {}]
  /\ last_writer = 0
  /\ residue = FALSE
  /\ sigint = [p \in Runs |-> ""]

\* one provisioner run
Init ==
  /\ file \in PriorFiles
  /\ pc = [p \in Runs |-> IF p = 1 THEN "start" ELSE "off"]
  /\ \E d \in BOOLEAN : docker = [p \in Runs |-> d]
  /\ \E e \in Environs : environ = [p \in Runs |-> IF p = 1 THEN e ELSE NoEnv]
  /\ InitCommon
  /\ probe = ProbeIdle

Spec == Init /\ [][Next]_vars

(***************************************************************************)
(* Properties of one provisioner run (Spec).                               *)
(***************************************************************************)
Required == {"NEO4J_URI", "NEO4J_USERNAME", "NEO4J_PASSWORD"}

\* what dotenv reads for key k in file f
FileValue(f, k) == IF f.exists THEN DotenvValues(f.lines)[k] ELSE None

\* the text after "KEY=" in the last line of f binding k
FileRaw(f, k) ==
  LET hits == {i \in 1..Len(f.lines) : f.lines[i].k = k}
  IN  IF hits = {} THEN None
      ELSE f.lines[CHOOSE i \in hits : \A j \in hits : j <= i].v

\* run p has started a server process, a container or an image build
Started(p) ==
  \/ pc[p] \in {"serving", "building", "container"}
  \/ child_env[p] # NoEnv
  \/ child_rc[p] # -1
  \/ sigint[p] # ""

\* C1: a run whose prior file lacks one of NEO4J_URI, NEO4J_USERNAME,
\* NEO4J_PASSWORD exits non-zero, leaves the file as it was and starts no
\* server process and no image build, whatever the environment holds.
C1_MissingFieldAborts ==
  (\E k \in Required : ~Truthy(FileValue(prior, k)))
    => /\ file = prior
       /\ ~Started(1)
       /\ pc[1] = "done" => exit_code[1] # 0

\* C2: after a run whose prior file holds all three datastore fields, the
\* file holds the prior file's values for them and the key this run generated.
C2_FieldsPreserved ==
  ((\A k \in Required : Truthy(FileValue(prior, k))) /\ pc[1] = "done")
    => /\ \A k \in Required : FileValue(file, k) = FileValue(prior, k)
       /\ FileValue(file, "NEO4J_API_KEY") = api_key[1]

\* C3: the local server child gets, for every configuration key, the value
\* the file written by the same run holds for it.
C3_ChildGetsPersisted ==
  (~docker[1] /\ pc[1] = "serving")
    => \A k \in Keys : child_env[1][k] = DotenvValues(env_content[1])[k]

\* C4 as stated: a child's non-zero exit code c is the provisioner's exit code.
C4_ChildCodePropagated ==
  \A p \in Runs : (pc[p] = "done" /\ child_rc[p] > 0) => exit_code[p] = child_rc[p]

\* C4, amended: after an image build or a container run that exited non-zero
\* the provisioner exits 1 whatever the child's code was; after a local
\* server child that exited non-zero it exits 0.
C4_ExitCodes ==
  \A p \in Runs :
    (pc[p] = "done" /\ child_rc[p] > 0) => exit_code[p] = (IF docker[p] THEN 1 ELSE 0)

C4_Witness ==
  /\ pc[1] = "done" /\ docker[1] /\ "image_built" \in out[1]
  /\ child_rc[1] = MaxExit /\ exit_code[1] = 1

\* C5: a run blocked on its server child (local or container) leaves that
\* state only by terminating, on the child's exit or on an interrupt; an
\* interrupt that arrives there makes it print "Server stopped" and exit 0.
C5_BlocksUntilExitOrInterrupt ==
  /\ [](\A p \in Runs :
          sigint[p] \in {"serving", "container"}
            => pc[p] = "done" /\ exit_code[p] = 0 /\ "server_stopped" \in out[p])
  /\ [][\A p \in Runs :
          (pc[p] \in {"serving", "container"} /\ pc'[p] # pc[p])
            => /\ pc'[p] = "done"
               /\ \/ child_rc[p] = -1 /\ child_rc'[p] \in 0..MaxExit /\ sigint'[p] = ""
                  \/ sigint'[p] = pc[p] /\ child_rc'[p] = -1]_vars

C5_Witness ==
  /\ sigint[1] = "container" /\ pc[1] = "done" /\ exit_code[1] = 0
  /\ "server_stopped" \in out[1]

\* every 'localhost' and '127.0.0.1' of s, found in one scan from the left,
\* replaced by the container-host alias
RECURSIVE ReplaceLoopback(_)
ReplaceLoopback(s) ==
  IF s = <<>> THEN <<>>
  ELSE IF StartsWith(s, S_localhost)
       THEN S_docker_host \o ReplaceLoopback(Drop(s, Len(S_localhost)))
  ELSE IF StartsWith(s, S_loopback_ip)
       THEN S_docker_host \o ReplaceLoopback(Drop(s, Len(S_loopback_ip)))
  ELSE <<Head(s)>> \o ReplaceLoopback(Tail(s))

\* C8: the NEO4J_URI the container gets is the persisted URI with every
\* 'localhost' and '127.0.0.1' replaced by 'host.docker.internal'; a URI
\* with neither is passed unchanged; bolt://localhost:7687 becomes
\* bolt://host.docker.internal:7687.
C8_LoopbackRewritten ==
  \A p \in Runs :
    (docker[p] /\ child_env[p] # NoEnv)
      => LET u == FileRaw(file, "NEO4J_URI")
             c == child_env[p]["NEO4J_URI"]
         IN  /\ c = ReplaceLoopback(u)
             /\ (~Contains(u, S_localhost) /\ ~Contains(u, S_loopback_ip)) => c = u
             /\ u = U_local => c = S_bolt \o S_docker_host \o S_p7687

C8_Witness ==
  /\ docker[1] /\ pc[1] = "container"
  /\ FileRaw(file, "NEO4J_URI") = U_mixed
  /\ child_env[1]["NEO4J_URI"] =
       S_bolt \o S_docker_host \o S_p7687 \o <<",">> \o S_docker_host \o S_p7688

(***************************************************************************)
(* Two provisioner runs racing on one .env file (RaceSpec).                *)
(***************************************************************************)
\* the environments of racing runs: nothing set, a long cluster address,
\* or all three datastore fields
RaceEnvirons ==
  { NoEnv,
    With(NoEnv, "NEO4J_URI", U_long),
    With(With(With(NoEnv, "NEO4J_URI", U_cloud), "NEO4J_USERNAME", V_user),
         "NEO4J_PASSWORD", V_pass) }

InitRace ==
  /\ file = FileOf(BaseBindings)
  /\ pc = [p \in Runs |-> "start"]
  /\ docker \in [Runs -> BOOLEAN]
  /\ environ \in [Runs -> RaceEnvirons]
  /\ InitCommon
  /\ probe = ProbeIdle

RaceSpec == InitRace /\ [][Next]_vars

BothWritten == \A p \in Runs : "updated_env" \in out[p]

\* each run's server gets the key that run generated
OwnKeyLaunched ==
  \A p \in Runs : child_env[p] # NoEnv => child_env[p]["NEO4J_API_KEY"] = api_key[p]

Missing == "<missing>"

\* a remote operation: its name and, for call_tool, the tool and its arguments
Op(name, tool) == [op |-> name, tool |-> tool, args |-> {}]

\* the remote operations of a full run, in the order of lines 64-86
OpOrder ==
  << Op("connect", ""), Op("ping", ""), Op("list_tools", ""),
     Op("call_tool", "get_neo4j_schema") >>

\* tools as list_tools returns them: a name and the lines of a description
\* (None: no description)
ToolLists ==
  { <<>>,
    << [name |-> "get_neo4j_schema", description |-> <<"Returns the schema.", "Node labels and types.">>],
       [name |-> "read_neo4j_cypher", description |-> None],
       [name |-> "write_neo4j_cypher", description |-> <<>>] >> }

\* lines 75-80: the name and, of a non-empty description, the first line
\* ("".split("\n") is [""], and an empty description prints nothing)
Listing(tools) ==
  [i \in 1..Len(tools) |->
     [name |-> tools[i].name,
      first_line |-> IF tools[i].description = None \/ tools[i].description = <<>>
                     THEN Missing ELSE tools[i].description[1]]]

\* a top-level value of a schema: a mapping with optional "type", "count"
\* and "properties", or something that is no mapping
Mapping(t, c, props) == [mapping |-> TRUE, type |-> t, count |-> c, properties |-> props]
NoMapping == [mapping |-> FALSE, type |-> Missing, count |-> Missing, properties |-> None]

\* the key/value pairs schema texts are made of
Pairs ==
  { [key |-> "Person", value |-> Mapping("node", "5", <<"name">>)],
    [key |-> "Person", value |-> Mapping("node", Missing, None)],
    [key |-> "Person", value |-> Mapping("label", "5", <<>>)],
    [key |-> "Person", value |-> NoMapping],
    [key |-> "Movie", value |-> Mapping("node", "2", <<"title">>)],
    [key |-> "Movie", value |-> Mapping(Missing, "2", <<>>)],
    [key |-> "KNOWS", value |-> Mapping("relationship", "2", <<>>)],
    [key |-> "KNOWS", value |-> Mapping("relationship", Missing, <<"since">>)],
    [key |-> "KNOWS", value |-> Mapping("node", "5", None)] }

SeqsUpTo(S, n) == UNION {[1..m -> S] : m \in 0..n}

\* the text of a tool result: no JSON, a JSON array, or a JSON object given
\* by its pairs in textual order (a key may repeat)
Texts ==
  {[kind |-> "invalid", pairs |-> <<>>], [kind |-> "array", pairs |-> <<>>]}
  \cup {[kind |-> "object", pairs |-> ps] : ps \in SeqsUpTo(Pairs, MaxEntries)}

\* result.content: nothing, or one text item
Contents == {<<>>} \cup {<<[type |-> "text", text |-> t]>> : t \in Texts}

\* json.loads of an object: a dict in insertion order, a repeated key
\* keeping its first place and taking its last value
RECURSIVE JsonLoads(_)
JsonLoads(pairs) ==
  IF pairs = <<>> THEN <<>>
  ELSE LET d == JsonLoads(SubSeq(pairs, 1, Len(pairs) - 1))
           kv == pairs[Len(pairs)]
           at == {i \in 1..Len(d) : d[i].key = kv.key}
       IN  IF at = {} THEN Append(d, kv)
           ELSE [i \in 1..Len(d) |-> IF i \in at THEN kv ELSE d[i]]

\* [k for k, v in schema_data.items() if v.get("type") == t]
RECURSIVE TypesOf(_, _)
TypesOf(d, t) ==
  IF d = <<>> THEN <<>>
  ELSE (IF Head(d).value.type = t THEN <<Head(d).key>> ELSE <<>>) \o TypesOf(Tail(d), t)

\* schema_data[name]
Lookup(d, name) == d[CHOOSE i \in 1..Len(d) : d[i].key = name].value

\* lines 119-122 and 129-134: what is printed for one listed type
SummaryLine(d, name) ==
  LET info == Lookup(d, name)
  IN  [name |-> name,
       prop_count |-> IF info.properties = None THEN 0 ELSE Len(info.properties),
       count |-> IF info.count = Missing THEN "?" ELSE info.count]

\* a faulty variant of rel_types: whatever is no node is taken for a relationship
rel_types_NotNode(d) ==
  LET RECURSIVE Rest(_)
      Rest(x) == IF x = <<>> THEN <<>>
                 ELSE (IF Head(x).value.type # "node" THEN <<Head(x).key>> ELSE <<>>)
                      \o Rest(Tail(x))
  IN  Rest(d)

\* lines 102-109
node_types(d) == TypesOf(d, "node")
rel_types(d) == TypesOf(d, "relationship")

\* lines 102-135: the summary printed for schema_data d
Summarize(d) ==
  [node_count |-> Len(node_types(d)),
   rel_count |-> Len(rel_types(d)),
   node_lines |-> [i \in 1..Len(node_types(d)) |-> SummaryLine(d, node_types(d)[i])],
   rel_lines |-> [i \in 1..Len(rel_types(d)) |-> SummaryLine(d, rel_types(d)[i])]]

NoSummary == [node_count |-> -1, rel_count |-> -1, node_lines |-> <<>>, rel_lines |-> <<>>]

\* lines 90-109 raise: content[0] of no content, json.loads of no JSON,
\* .items() of an array, .get of a value that is no mapping
SummaryRaises(content) ==
  \/ content = <<>>
  \/ content[1].text.kind # "object"
  \/ LET d == JsonLoads(content[1].text.pairs)
     IN  \E i \in 1..Len(d) : ~d[i].value.mapping

\* a faulty variant of Fail: the exception is reported and not raised again
Fail_Swallowed(step, ops) ==
  probe' = [probe EXCEPT !.pc = "closed", !.outcome = "returned", !.raised_at = step,
                         !.ops = ops, !.out = @ \cup {"error", "troubleshooting"}]

\* lines 145-152: the exception of a step is reported and raised again;
\* ops are the operations issued by then
Fail(step, ops) ==
  probe' = [probe EXCEPT !.pc = "failed", !.outcome = "raised", !.raised_at = step,
                         !.ops = ops, !.out = @ \cup {"error", "troubleshooting"}]

\* lines 40-60
ProbeLoad ==
  /\ probe.pc = "start"
  /\ IF ~file.exists
     THEN probe' = [probe EXCEPT !.pc = "returned", !.outcome = "returned",
                                 !.out = @ \cup {"env_not_found"}]
     ELSE LET key == IF probe.environ # None THEN probe.environ
                     ELSE DotenvValues(file.lines)["NEO4J_API_KEY"]
          IN  IF ~Truthy(key)
              THEN probe' = [probe EXCEPT !.pc = "returned", !.outcome = "returned",
                                          !.environ = key,
                                          !.out = @ \cup {"key_not_found"}]
              ELSE probe' = [probe EXCEPT !.pc = "connect", !.environ = key,
                                          !.api_key = key,
                                          !.out = @ \cup {"loaded_key"}]
  /\ UNCHANGED provisioner_vars

\* line 64: async with Client(transport)
ProbeConnect ==
  /\ probe.pc = "connect"
  /\ LET ops == Append(probe.ops, Op("connect", ""))
     IN  \/ probe' = [probe EXCEPT !.pc = "ping", !.ops = ops]
         \/ Fail("connect", ops)
  /\ UNCHANGED provisioner_vars

\* lines 66-68: await client.ping()
ProbePing ==
  /\ probe.pc = "ping"
  /\ LET ops == Append(probe.ops, Op("ping", ""))
     IN  \/ probe' = [probe EXCEPT !.pc = "list", !.ops = ops,
                                   !.out = @ \cup {"connection_ok"}]
         \/ Fail("ping", ops)
  /\ UNCHANGED provisioner_vars

\* lines 72-81: await client.list_tools() and the listing printed
ProbeListTools ==
  /\ probe.pc = "list"
  /\ LET ops == Append(probe.ops, Op("list_tools", ""))
     IN  \/ \E tools \in ToolLists :
              probe' = [probe EXCEPT !.pc = "call", !.ops = ops,
                                     !.listing = Listing(tools)]
         \/ Fail("list_tools", ops)
  /\ UNCHANGED provisioner_vars

\* lines 84-86: await client.call_tool("get_neo4j_schema", {})
ProbeCallTool ==
  /\ probe.pc = "call"
  /\ LET ops == Append(probe.ops, Op("call_tool", "get_neo4j_schema"))
     IN  \/ \E content \in Contents :
              probe' = [probe EXCEPT !.pc = "summarize", !.ops = ops,
                                     !.content = content]
         \/ Fail("call_tool", ops)
  /\ UNCHANGED provisioner_vars

\* lines 89-143: the result is parsed and summarized, the session closed
ProbeSummarize ==
  /\ probe.pc = "summarize"
  /\ IF SummaryRaises(probe.content)
     THEN Fail("summarize", probe.ops)
     ELSE LET schema_data == JsonLoads(probe.content[1].text.pairs)
          IN  probe' = [probe EXCEPT !.pc = "closed", !.outcome = "returned",
                                     !.schema_data = schema_data,
                                     !.summary = Summarize(schema_data),
                                     !.out = @ \cup {"tool_call_ok", "completed"}]
  /\ UNCHANGED provisioner_vars

ProbeNext ==
  \/ ProbeLoad
  \/ ProbeConnect
  \/ ProbePing
  \/ ProbeListTools
  \/ ProbeCallTool
  \/ ProbeSummarize

\* the files a probe may find: none, one without a key (.env.sample filled
\* in), one with an empty key, one written by the provisioner
ProbeFiles ==
  { NoFile,
    FileOf(BaseBindings),
    FileOf(With(BaseBindings, "NEO4J_API_KEY", <<>>)),
    [exists |-> TRUE,
     lines |-> EnvContent(U_local, V_user, V_pass, S_neo4j, CHOOSE k \in ApiKeys : TRUE)] }

ProbeInit ==
  /\ file \in ProbeFiles
  /\ pc = [p \in Runs |-> "off"]
  /\ docker = [p \in Runs |-> FALSE]
  /\ environ = [p \in Runs |-> NoEnv]
  /\ InitCommon
  /\ \E e \in {None, <<>>, CHOOSE k \in ApiKeys : TRUE} :
       probe = [pc |-> "start", environ |-> e, api_key |-> None, ops |-> <<>>,
                listing |-> <<>>, content |-> <<>>, schema_data |-> <<>>,
                summary |-> NoSummary, outcome |-> "running", raised_at |-> "",
                out |-> {}]

ProbeSpec == ProbeInit /\ [][ProbeNext]_vars

(***************************************************************************)
(* Properties of the probe (ProbeSpec).                                    *)
(***************************************************************************)
Prefix(a, b) == Len(a) <= Len(b) /\ a = SubSeq(b, 1, Len(a))

\* C6: with no .env file, or one without a NEO4J_API_KEY entry, the probe
\* prints a message, returns normally and performs no network operation.
C6_NoKeyNoNetwork ==
  (~file.exists \/ FileRaw(file, "NEO4J_API_KEY") = None)
    => /\ probe.ops = <<>>
       /\ probe.pc \in {"start", "returned"}
       /\ probe.pc = "returned"
            => probe.outcome = "returned" /\ probe.out \cap {"env_not_found", "key_not_found"} # {}

\* C7: the remote operations are issued in the order connect, ping,
\* list_tools, call_tool get_neo4j_schema, each at most once and only after
\* the one before returned; an exception at any step (summarizing included)
\* ends the run in Failed, raised to the caller, with no further operation;
\* otherwise the run ends in Closed; neither state is ever left.
C7_OrderedNoRetry ==
  /\ [](/\ Prefix(probe.ops, OpOrder)
        /\ probe.raised_at # ""
             => probe.pc = "failed" /\ probe.outcome = "raised"
                /\ "troubleshooting" \in probe.out
        /\ probe.pc = "failed" => probe.raised_at # ""
        /\ probe.pc = "closed"
             => probe.ops = OpOrder /\ probe.raised_at = "" /\ probe.outcome = "returned"
        /\ probe.ops # <<>> =>
             probe.pc = CASE probe.raised_at # "" -> "failed"
                          [] probe.raised_at = "" /\ Len(probe.ops) = 1 -> "ping"
                          [] probe.raised_at = "" /\ Len(probe.ops) = 2 -> "list"
                          [] probe.raised_at = "" /\ Len(probe.ops) = 3 -> "call"
                          [] OTHER -> IF probe.outcome = "running" THEN "summarize"
                                      ELSE "closed")
  /\ [][probe.pc \in {"failed", "closed"} => probe' = probe]_vars

C7_Witness ==
  /\ probe.pc = "failed" /\ probe.raised_at = "summarize"
  /\ probe.ops = OpOrder /\ probe.outcome = "raised"

\* C9: the summary partitions the entries of the schema by "type": the node
\* count is the number of entries of type node, the relationship count the
\* number of type relationship, no entry is listed in both groups, an entry
\* of another or no type is listed in neither, and each listed entry shows
\* its own count; one node entry with count 5 and one relationship entry
\* with count 2 give 1 and 1 with counts 5 and 2.
C9_SummaryPartitions ==
  probe.pc = "closed" =>
    LET d == probe.schema_data
        sm == probe.summary
        NamesOf(t) == {d[i].key : i \in {j \in 1..Len(d) : d[j].value.type = t}}
        Listed(lines) == {lines[i].name : i \in 1..Len(lines)}
        OwnCount(lines) ==
          \A i \in 1..Len(lines) :
            \E j \in 1..Len(d) :
              /\ d[j].key = lines[i].name
              /\ lines[i].count = (IF d[j].value.count = Missing THEN "?"
                                   ELSE d[j].value.count)
    IN  /\ sm.node_count = Cardinality(NamesOf("node"))
        /\ sm.rel_count = Cardinality(NamesOf("relationship"))
        /\ Len(sm.node_lines) = sm.node_count /\ Len(sm.rel_lines) = sm.rel_count
        /\ Listed(sm.node_lines) = NamesOf("node")
        /\ Listed(sm.rel_lines) = NamesOf("relationship")
        /\ Listed(sm.node_lines) \cap Listed(sm.rel_lines) = {}
        /\ OwnCount(sm.node_lines) /\ OwnCount(sm.rel_lines)
        /\ d = << [key |-> "Person", value |-> Mapping("node", "5", <<"name">>)],
                  [key |-> "KNOWS", value |-> Mapping("relationship", "2", <<>>)] >>
             => sm = [node_count |-> 1, rel_count |-> 1,
                      node_lines |-> <<[name |-> "Person", prop_count |-> 1, count |-> "5"]>>,
                      rel_lines |-> <<[name |-> "KNOWS", prop_count |-> 0, count |-> "2"]>>]

C9_Witness ==
  /\ probe.pc = "closed"
  /\ Len(probe.listing) = 3
  /\ probe.schema_data =
       << [key |-> "Person", value |-> Mapping("node", "5", <<"name">>)],
          [key |-> "KNOWS", value |-> Mapping("relationship", "2", <<>>)] >>
  /\ probe.summary.node_count = 1 /\ probe.summary.rel_count = 1
  /\ probe.summary.node_lines[1].count = "5" /\ probe.summary.rel_lines[1].count = "2"

=============================================================================
